---------------------------- MODULE Spec2Model ----------------------------
(***************************************************************************)
(* The activity hierarchy engine of deal-deck-api (src/activity_helpers.py)*)
(* as a state machine: a snapshot of activity records and the six         *)
(* read-only queries over it.                                              *)
(*                                                                         *)
(* Values.  An id or a parent reference is a Python value: None, the      *)
(* empty string, or a non-empty string.  Non-empty strings are the        *)
(* naturals 1, 2, ...; the empty string is EmptyStr and None is None.     *)
(* An activity is a dict: a function whose domain holds "id" and, when    *)
(* the key is present, "parent_activity_id".                               *)
(*                                                                         *)
(* Outcomes.  A call returns a value, or, on a snapshot with a parent     *)
(* cycle, the recursive functions exhaust the interpreter's stack         *)
(* (RecursionError) and the ancestor loop never leaves its while.         *)
(***************************************************************************)
EXTENDS Integers, Sequences, FiniteSets, TLC

VARIABLES activities, op, arg1, arg2, result, stack, other

vars == <<activities, op, arg1, arg2, result, stack, other>>

\* Longest snapshot the model draws.
MaxLen == 3

\* Python's None (the default of parent_id, the value of dict.get on a miss).
None == -1

\* The empty string: a value that is not None and is falsy.
EmptyStr == 0

\* The ids a record may carry: Activity.id is a non-empty primary key.
Ids == 1..MaxLen

\* A non-empty string that is the id of no record of any snapshot.
Missing == MaxLen + 1

\* What a parent_activity_id, or an argument of a query, may hold.
Refs == {None, EmptyStr} \cup Ids \cup {Missing}

\* dict.get(key): the value, None when the key is absent.
Get(activity, key) == IF key \in DOMAIN activity THEN activity[key] ELSE None

\* Python truthiness of None and of strings.
Truthy(v) == v /= None /\ v /= EmptyStr

\* The records that carry a given id: with the key parent_activity_id
\* (holding any reference) or without it.
RecordsWithId(id) ==
  {[id |-> id, parent_activity_id |-> p] : p \in Refs} \cup {[id |-> id]}

\* The ids of a snapshot are unique (a primary key).
UniqueIds(F) == \A i, j \in 1..Len(F) : F[i]["id"] = F[j]["id"] => i = j

\* Ids are opaque: the engine only tests them for equality and truthiness,
\* so a snapshot of n records is drawn with the ids 1..n.  It lists them
\* oldest first or newest first, so that snapshot order is not id order.
IdOrders(n) == {[i \in 1..n |-> i], [i \in 1..n |-> n + 1 - i]}

\* The snapshots whose first k records carry the ids order[1..k].
RECURSIVE SnapshotsWith(_, _)
SnapshotsWith(order, k) ==
  IF k = 0 THEN {<<>>}
  ELSE UNION {{Append(F, r) : r \in RecordsWithId(order[k])} :
                F \in SnapshotsWith(order, k - 1)}

Snapshots ==
  UNION {UNION {SnapshotsWith(order, n) : order \in IdOrders(n)} : n \in 0..MaxLen}

-----------------------------------------------------------------------------
(* Outcomes of a call *)

Return(v) == [kind |-> "return", value |-> v]

\* The interpreter's stack is exhausted: the recursion never bottoms out.
RecursionError == [kind |-> "RecursionError", value |-> <<>>]

\* The while loop never ends; the call never returns.
Diverges == [kind |-> "diverges", value |-> <<>>]

\* A chain of nested calls longer than the snapshot holds one record twice,
\* so it is on a parent cycle and the recursion is unbounded.
RecursionLimit(F) == Len(F)

-----------------------------------------------------------------------------
(* get_activity_tree *)

\* Mutant: a falsy parent_activity_id counts as a root of the null-rooted tree.
TreeSelectsFalsy(activity, parent_id) ==
  IF parent_id = None THEN ~Truthy(Get(activity, "parent_activity_id"))
  ELSE Get(activity, "parent_activity_id") = parent_id

\* if activity.get("parent_activity_id") == parent_id
TreeSelects(activity, parent_id) == Get(activity, "parent_activity_id") = parent_id

\* Mutant: the children key is set even when the list is empty.
WithChildrenAlways(activity, children) ==
  [k \in DOMAIN activity \cup {"children"} |->
     IF k = "children" THEN children ELSE activity[k]]

\* Mutant: the children are never attached to the copy.
WithChildrenDropped(activity, children) == activity

\* Mutant: the node is built from the id alone, not copied from the record.
WithChildrenOfIdOnly(activity, children) ==
  IF children /= <<>>
  THEN [k \in {"id", "children"} |->
          IF k = "children" THEN children ELSE activity[k]]
  ELSE [k \in {"id"} |-> activity[k]]

\* activity_copy = activity.copy(); if children: activity_copy["children"] = children
WithChildren(activity, children) ==
  IF children /= <<>>
  THEN [k \in DOMAIN activity \cup {"children"} |->
          IF k = "children" THEN children ELSE activity[k]]
  ELSE activity

\* Mutant: tree.insert(0, activity_copy), the siblings in reverse order.
PrependNode(tree, activity_copy) == <<activity_copy>> \o tree

\* tree.append(activity_copy)
AppendNode(tree, activity_copy) == Append(tree, activity_copy)

\* Mutant: no copy is taken, activity_copy is the snapshot's own dict.
CopyTargetAlias(i) == i

\* activity_copy = activity.copy(): the dict activity_copy refers to, as a
\* position of the snapshot; 0 for a new dict that is no record of it.
CopyTarget(i) == 0

\* activity_copy["children"] = children, under "if children": the snapshot
\* after the write to the dict at position target (0: a dict of its own).
SetChildren(F, target, children) ==
  IF target = 0 \/ children = <<>> THEN F
  ELSE [F EXCEPT ![target] = WithChildren(F[target], children)]

RECURSIVE get_activity_tree(_, _, _)
RECURSIVE TreeLoop(_, _, _, _, _)

\* for activity in activities: ..., from the i-th record on, with the tree
\* built so far.  An exception of a nested call ends the whole call.  The
\* outcome carries the snapshot as the call leaves it.
TreeLoop(F, parent_id, depth, i, tree) ==
  IF i > Len(F) THEN [kind |-> "return", value |-> tree, snapshot |-> F]
  ELSE IF TreeSelects(F[i], parent_id)
       THEN LET children == get_activity_tree(F, F[i]["id"], depth + 1)
                after == children.snapshot
            IN  IF children.kind /= "return" THEN children
                ELSE TreeLoop(SetChildren(after, CopyTarget(i), children.value),
                              parent_id, depth, i + 1,
                              AppendNode(tree, WithChildren(after[i], children.value)))
       ELSE TreeLoop(F, parent_id, depth, i + 1, tree)

\* depth: the number of calls of get_activity_tree below this one on the stack.
get_activity_tree(F, parent_id, depth) ==
  IF depth > RecursionLimit(F)
  THEN [kind |-> "RecursionError", value |-> <<>>, snapshot |-> F]
  ELSE TreeLoop(F, parent_id, depth, 1, <<>>)

-----------------------------------------------------------------------------
(* get_activity_descendants *)

\* Mutant: a falsy activity_id has no children.
IsChildOfTruthy(activity, activity_id) ==
  Truthy(activity_id) /\ Get(activity, "parent_activity_id") = activity_id

\* Mutant: a record that names itself as its parent is not followed.
IsChildOfNotSelf(activity, activity_id) ==
  /\ Get(activity, "parent_activity_id") = activity_id
  /\ activity["id"] /= activity_id

\* if activity.get("parent_activity_id") == activity_id
IsChildOf(activity, activity_id) == Get(activity, "parent_activity_id") = activity_id

\* Mutant: the child is appended again with its own descendants.
AppendExtendTwice(descendants, activity, below) ==
  Append(Append(descendants, activity), activity) \o below

\* Mutant: post-order, the child after its own descendants.
AppendExtendPost(descendants, activity, below) ==
  Append(descendants \o below, activity)

\* Mutant: each child and its descendants are inserted at the front.
AppendExtendFront(descendants, activity, below) ==
  (<<activity>> \o below) \o descendants

\* descendants.append(activity); descendants.extend(<the child's descendants>)
AppendExtend(descendants, activity, below) == Append(descendants, activity) \o below

RECURSIVE get_activity_descendants(_, _, _)
RECURSIVE DescendantsLoop(_, _, _, _, _)

DescendantsLoop(F, activity_id, depth, i, descendants) ==
  IF i > Len(F) THEN Return(descendants)
  ELSE IF IsChildOf(F[i], activity_id)
       THEN LET below == get_activity_descendants(F, F[i]["id"], depth + 1)
            IN  IF below.kind /= "return" THEN below
                ELSE DescendantsLoop(F, activity_id, depth, i + 1,
                                     AppendExtend(descendants, F[i], below.value))
       ELSE DescendantsLoop(F, activity_id, depth, i + 1, descendants)

get_activity_descendants(F, activity_id, depth) ==
  IF depth > RecursionLimit(F) THEN RecursionError
  ELSE DescendantsLoop(F, activity_id, depth, 1, <<>>)

-----------------------------------------------------------------------------
(* get_activity_ancestors, calculate_activity_depth, is_ancestor_of *)

\* next((a for a in activities if a["id"] == id), None): the index of the
\* first record with that id, 0 for None.
Find(F, id) ==
  LET hits == {i \in 1..Len(F) : F[i]["id"] = id}
  IN  IF hits = {} THEN 0 ELSE CHOOSE i \in hits : \A j \in hits : i <= j

\* while parent_id: ... the condition of the loop
WalkContinues(parent_id) == Truthy(parent_id)

\* Mutant: parent_id is not advanced, the loop stays at the same parent.
NextParentStuck(parent) == parent["id"]

\* parent_id = parent.get("parent_activity_id")
NextParent(parent) == Get(parent, "parent_activity_id")

\* Mutant: ancestors.insert(0, parent), the root first.
PrependAncestor(ancestors, parent) == <<parent>> \o ancestors

\* Mutant: a parent already in the list is not appended again.
AppendAncestorOnce(ancestors, parent) ==
  IF \E k \in 1..Len(ancestors) : ancestors[k] = parent THEN ancestors
  ELSE Append(ancestors, parent)

\* ancestors.append(parent)
AppendAncestor(ancestors, parent) == Append(ancestors, parent)

RECURSIVE AncestorsLoop(_, _, _)

\* The while loop, with the ancestors appended so far.  More ancestors than
\* records: one is there twice, the walk is on a cycle and never ends.
AncestorsLoop(F, parent_id, ancestors) ==
  IF ~WalkContinues(parent_id) THEN Return(ancestors)
  ELSE IF Len(ancestors) > Len(F) THEN Diverges
  ELSE LET parent == Find(F, parent_id)
       IN  IF parent = 0 THEN Return(ancestors)
           ELSE AncestorsLoop(F, NextParent(F[parent]),
                              AppendAncestor(ancestors, F[parent]))

\* Mutant: next(...) without its default, a lookup miss raises StopIteration.
AncestorsRaisingOnMiss(F, activity_id) ==
  LET activity == Find(F, activity_id)
  IN  IF activity = 0 THEN [kind |-> "StopIteration", value |-> <<>>]
      ELSE AncestorsLoop(F, Get(F[activity], "parent_activity_id"), <<>>)

\* Mutant: the walk starts at the activity's own id, not at its parent_id.
AncestorsFromSelf(F, activity_id) ==
  LET activity == Find(F, activity_id)
  IN  IF activity = 0 THEN Return(<<>>)
      ELSE AncestorsLoop(F, F[activity]["id"], <<>>)

get_activity_ancestors(F, activity_id) ==
  LET activity == Find(F, activity_id)
  IN  IF activity = 0 THEN Return(<<>>)
      ELSE AncestorsLoop(F, Get(F[activity], "parent_activity_id"), <<>>)

\* Mutant: "is None" in place of "not": an empty parent_activity_id is no root.
IsRootNoneOnly(activity) == Get(activity, "parent_activity_id") = None

\* return [a for a in activities if not a.get("parent_activity_id")]
IsRoot(activity) == ~Truthy(Get(activity, "parent_activity_id"))

get_root_activities(F) == Return(SelectSeq(F, IsRoot))

\* Mutant: the depth counts the activity itself, when it exists.
DepthCountingSelf(F, activity_id) ==
  LET ancestors == get_activity_ancestors(F, activity_id)
  IN  IF ancestors.kind /= "return" THEN ancestors
      ELSE Return(Len(ancestors.value) + (IF Find(F, activity_id) = 0 THEN 0 ELSE 1))

calculate_activity_depth(F, activity_id) ==
  LET ancestors == get_activity_ancestors(F, activity_id)
  IN  IF ancestors.kind /= "return" THEN ancestors
      ELSE Return(Len(ancestors.value))

\* Mutant: the immediate parent is skipped, any(... for a in ancestors[1:]).
IsAncestorSkippingParent(F, ancestor_id, descendant_id) ==
  LET ancestors == get_activity_ancestors(F, descendant_id)
  IN  IF ancestors.kind /= "return" THEN ancestors
      ELSE Return(\E i \in 2..Len(ancestors.value) :
                     ancestors.value[i]["id"] = ancestor_id)

\* Mutant: an id is taken to be its own ancestor.
IsAncestorReflexive(F, ancestor_id, descendant_id) ==
  LET ancestors == get_activity_ancestors(F, descendant_id)
  IN  IF ancestors.kind /= "return" THEN ancestors
      ELSE Return(\/ ancestor_id = descendant_id
                  \/ \E i \in 1..Len(ancestors.value) :
                        ancestors.value[i]["id"] = ancestor_id)

is_ancestor_of(F, ancestor_id, descendant_id) ==
  LET ancestors == get_activity_ancestors(F, descendant_id)
  IN  IF ancestors.kind /= "return" THEN ancestors
      ELSE Return(\E i \in 1..Len(ancestors.value) :
                     ancestors.value[i]["id"] = ancestor_id)

-----------------------------------------------------------------------------
(* The state machine.  The engine is synchronous and keeps no state across *)
(* calls: a caller hands the snapshot to one query, takes the outcome, and *)
(* the outcome is discarded before the next query.                         *)

\* A caller that has no call under way.
Idle ==
  [op |-> "none", arg1 |-> None, arg2 |-> None,
   result |-> Return(<<>>), stack |-> <<>>]

Init ==
  /\ activities \in Snapshots
  /\ op = "none"
  /\ arg1 = None
  /\ arg2 = None
  /\ result = Return(<<>>)
  /\ stack = <<>>
  /\ other = Idle

CallTree(parent_id) ==
  /\ op = "none"
  /\ op' = "get_activity_tree"
  /\ arg1' = parent_id
  /\ arg2' = None
  /\ LET outcome == get_activity_tree(activities, parent_id, 0)
     IN  /\ result' = [kind |-> outcome.kind, value |-> outcome.value]
         /\ activities' = outcome.snapshot
  /\ UNCHANGED <<stack, other>>

CallDescendants(activity_id) ==
  /\ op = "none"
  /\ op' = "get_activity_descendants"
  /\ arg1' = activity_id
  /\ arg2' = None
  /\ result' = get_activity_descendants(activities, activity_id, 0)
  /\ UNCHANGED <<activities, stack, other>>

CallAncestors(activity_id) ==
  /\ op = "none"
  /\ op' = "get_activity_ancestors"
  /\ arg1' = activity_id
  /\ arg2' = None
  /\ result' = get_activity_ancestors(activities, activity_id)
  /\ UNCHANGED <<activities, stack, other>>

CallRoots ==
  /\ op = "none"
  /\ op' = "get_root_activities"
  /\ arg1' = None
  /\ arg2' = None
  /\ result' = get_root_activities(activities)
  /\ UNCHANGED <<activities, stack, other>>

CallDepth(activity_id) ==
  /\ op = "none"
  /\ op' = "calculate_activity_depth"
  /\ arg1' = activity_id
  /\ arg2' = None
  /\ result' = calculate_activity_depth(activities, activity_id)
  /\ UNCHANGED <<activities, stack, other>>

CallIsAncestor(ancestor_id, descendant_id) ==
  /\ op = "none"
  /\ op' = "is_ancestor_of"
  /\ arg1' = ancestor_id
  /\ arg2' = descendant_id
  /\ result' = is_ancestor_of(activities, ancestor_id, descendant_id)
  /\ UNCHANGED <<activities, stack, other>>

\* The response is produced and the derived structure is dropped.
Discard ==
  /\ op /= "none"
  /\ result.kind /= "running"
  /\ op' = "none"
  /\ arg1' = None
  /\ arg2' = None
  /\ result' = Return(<<>>)
  /\ UNCHANGED <<activities, stack, other>>

Next ==
  \/ \E p \in Refs : CallTree(p)
  \/ \E x \in Refs : CallDescendants(x)
  \/ \E x \in Refs : CallAncestors(x)
  \/ CallRoots
  \/ \E x \in Refs : CallDepth(x)
  \/ \E a, d \in Refs : CallIsAncestor(a, d)
  \/ Discard

Spec == Init /\ [][Next]_vars

-----------------------------------------------------------------------------
(* Vocabulary of the properties: the parent relation of a snapshot, stated *)
(* without the engine's operations.                                        *)

Returned == result.kind = "return"

Parent(r) == Get(r, "parent_activity_id")

IdsOf(F) == {F[i]["id"] : i \in 1..Len(F)}

\* The position of the record with this id, 0 when no record has it.
IndexOfId(F, id) ==
  IF id \in IdsOf(F) THEN CHOOSE i \in 1..Len(F) : F[i]["id"] = id ELSE 0

\* The position reached from position i by following parent_id k times;
\* 0 once a parent_id is null, absent or resolves to no record.
RECURSIVE Up(_, _, _)
Up(F, i, k) ==
  IF i = 0 \/ k = 0 THEN i ELSE Up(F, IndexOfId(F, Parent(F[i])), k - 1)

\* No record is its own ancestor.
Acyclic(F) == \A i \in 1..Len(F) : \A k \in 1..Len(F) : Up(F, i, k) /= i

\* The glossary's forest: unique ids and no parent cycle (orphans allowed).
Forest(F) == UniqueIds(F) /\ Acyclic(F)

\* Record i or one of its ancestors has x as its parent_id.
ChainReaches(F, i, x) ==
  \E k \in 0..(Len(F) - 1) : Up(F, i, k) /= 0 /\ Parent(F[Up(F, i, k)]) = x

\* The parent chain of record i ends at a root: a record whose parent_id is
\* null or absent.
ChainEndsAtRoot(F, i) == ChainReaches(F, i, None)

\* An orphan: parent_id is set (a non-empty reference) and resolves to no record.
IsOrphan(F, i) == Truthy(Parent(F[i])) /\ Parent(F[i]) \notin IdsOf(F)

\* A node of a tree without its children annotation.
Strip(node) == [k \in (DOMAIN node) \ {"children"} |-> node[k]]

\* The pre-order walk of a nested tree, each node without its children.
RECURSIVE Flatten(_)
Flatten(tree) ==
  IF tree = <<>> THEN <<>>
  ELSE LET node == Head(tree)
       IN  <<Strip(node)>>
           \o (IF "children" \in DOMAIN node THEN Flatten(node["children"]) ELSE <<>>)
           \o Flatten(Tail(tree))

Count(r, seq) == Cardinality({k \in 1..Len(seq) : seq[k] = r})

Elements(seq) == {seq[k] : k \in 1..Len(seq)}

NoDuplicates(seq) == \A j, k \in 1..Len(seq) : seq[j] = seq[k] => j = k

NullRootedTree == op = "get_activity_tree" /\ arg1 = None

\* Every parent_id of the snapshot is null, absent or a non-empty string.
NoEmptyParent(F) == \A i \in 1..Len(F) : Parent(F[i]) /= EmptyStr

-----------------------------------------------------------------------------
(* C1 *)

\* C1 as stated: in the null-rooted tree of a forest (orphans allowed), every
\* record of the snapshot appears exactly once in the pre-order flattening.
\* (Stated for snapshots whose parent ids are null, absent or non-empty.)
C1_EveryRecordOnce ==
  (NullRootedTree /\ Forest(activities) /\ NoEmptyParent(activities)) =>
    /\ Returned
    /\ \A i \in 1..Len(activities) :
         Count(activities[i], Flatten(result.value)) = 1

\* C1 amended: in the null-rooted tree of a forest, a record appears exactly
\* once in the pre-order flattening when its parent chain ends at a root, and
\* not at all when the chain ends at an unresolved parent_id (an orphan and
\* everything below it).
C1_OnceIffRootReachable ==
  (NullRootedTree /\ Forest(activities)) =>
    /\ Returned
    /\ \A i \in 1..Len(activities) :
         Count(activities[i], Flatten(result.value)) =
           (IF ChainEndsAtRoot(activities, i) THEN 1 ELSE 0)

\* A forest with a root, a child of the root and an orphan has been built.
C1_Witness ==
  /\ NullRootedTree /\ Forest(activities) /\ Returned
  /\ \E i, j, k \in 1..Len(activities) :
       /\ Parent(activities[i]) = None
       /\ Parent(activities[j]) = activities[i]["id"]
       /\ IsOrphan(activities, k)
       /\ Count(activities[j], Flatten(result.value)) = 1
       /\ Count(activities[k], Flatten(result.value)) = 0

-----------------------------------------------------------------------------
(* C2 *)

Descendants == op = "get_activity_descendants"

HasChildren(F, x) == \E i \in 1..Len(F) : Parent(F[i]) = x

\* C2 as stated: get_activity_descendants returns the empty sequence when
\* activity_id has no children or is the id of no record of the snapshot.
\* (Stated for an activity_id that is a non-empty string.)
C2_EmptyWhenAbsent ==
  (/\ Descendants /\ Truthy(arg1) /\ Forest(activities)
   /\ (~HasChildren(activities, arg1) \/ arg1 \notin IdsOf(activities))) =>
    (Returned /\ result.value = <<>>)

\* C2 amended: get_activity_descendants returns the empty sequence exactly
\* when no record of the snapshot has parent_id equal to activity_id; an
\* activity_id that is the id of no record still yields the records that
\* name it as their parent_id, and their descendants.
C2_EmptyIffNoChild ==
  Descendants =>
    ((Returned /\ result.value = <<>>) <=> ~HasChildren(activities, arg1))

\* The descendants of an id that no record carries have been collected, and
\* an orphan naming that id was returned.
C2_Witness ==
  /\ Descendants /\ Returned
  /\ Truthy(arg1) /\ arg1 \notin IdsOf(activities)
  /\ \E i \in 1..Len(activities) :
       /\ IsOrphan(activities, i)
       /\ Parent(activities[i]) = arg1
       /\ result.value[1] = activities[i]

-----------------------------------------------------------------------------
(* C3 *)

\* C3: on an acyclic snapshot with unique ids, the pre-order flattening of
\* the null-rooted tree holds exactly the records whose parent chain ends at
\* a root, each exactly once, and no other record.
C3_RoundTrip ==
  (NullRootedTree /\ Forest(activities)) =>
    /\ Returned
    /\ NoDuplicates(Flatten(result.value))
    /\ Elements(Flatten(result.value)) =
         {activities[i] : i \in {j \in 1..Len(activities) :
                                   ChainEndsAtRoot(activities, j)}}

\* A null-rooted tree three levels deep has been built and flattened.
C3_Witness ==
  /\ NullRootedTree /\ Forest(activities) /\ Returned
  /\ Len(Flatten(result.value)) = 3
  /\ \E i \in 1..Len(activities) :
       Up(activities, i, 2) /= 0 /\ activities[i] \in Elements(Flatten(result.value))

-----------------------------------------------------------------------------
(* C4 *)

\* C4: in a forest, a record whose parent_id p is not null appears exactly
\* once in the descendants of p, and a record whose parent_id is null or
\* absent appears in the descendants of no record's id.
C4_OnceUnderParent ==
  (Descendants /\ Forest(activities)) =>
    /\ Returned
    /\ \A i \in 1..Len(activities) :
         /\ (Parent(activities[i]) /= None /\ Parent(activities[i]) = arg1)
              => Count(activities[i], result.value) = 1
         /\ (Parent(activities[i]) = None /\ arg1 \in IdsOf(activities))
              => Count(activities[i], result.value) = 0

\* The descendants of a record with a child and a grandchild were collected
\* from a forest that also holds a root.
C4_Witness ==
  /\ Descendants /\ Forest(activities) /\ Returned
  /\ arg1 \in IdsOf(activities)
  /\ Len(result.value) = 2
  /\ \E i \in 1..Len(activities) : Parent(activities[i]) = None

-----------------------------------------------------------------------------
(* C5 *)

\* C5: on an acyclic snapshot get_activity_descendants returns exactly the
\* records whose parent chain leads back to activity_id, and every returned
\* record that is not a direct child of activity_id comes after its parent.
C5_PreOrderClosure ==
  (Descendants /\ Forest(activities)) =>
    /\ Returned
    /\ \A i \in 1..Len(activities) :
         (activities[i] \in Elements(result.value)) <=> ChainReaches(activities, i, arg1)
    /\ \A k \in 1..Len(result.value) :
         Parent(result.value[k]) /= arg1 =>
           \E j \in 1..(k - 1) : result.value[j]["id"] = Parent(result.value[k])

\* A grandchild was returned, after its parent, although the snapshot lists
\* the grandchild before its parent.
C5_Witness ==
  /\ Descendants /\ Forest(activities) /\ Returned
  /\ \E k \in 1..Len(result.value) :
       /\ Parent(result.value[k]) /= arg1
       /\ IndexOfId(activities, result.value[k]["id"])
            < IndexOfId(activities, Parent(result.value[k]))

-----------------------------------------------------------------------------
(* C6 *)

\* The positions of the direct children of x in the snapshot.
ChildrenOf(F, x) == {i \in 1..Len(F) : Parent(F[i]) = x}

\* Record i and the records below it.
Subtree(F, i) == {i} \cup {j \in 1..Len(F) : ChainReaches(F, j, F[i]["id"])}

\* The position of record i of the snapshot in a sequence of records.
Pos(F, i, seq) == CHOOSE k \in 1..Len(seq) : seq[k] = F[i]

\* C6 as stated: of two distinct direct children c1 and c2 of activity_id,
\* c1 is emitted before every proper descendant of c2.
C6_ChildrenBeforeSiblingsDescendants ==
  (Descendants /\ Forest(activities) /\ Returned) =>
    \A c1, c2 \in ChildrenOf(activities, arg1) :
      c1 /= c2 =>
        \A g \in Subtree(activities, c2) \ {c2} :
          Pos(activities, c1, result.value) < Pos(activities, g, result.value)

\* C6 amended: of two distinct direct children c1 and c2 of activity_id with
\* c1 before c2 in the snapshot, c1 and every descendant of c1 are emitted
\* before c2 and every descendant of c2.
C6_SubtreesInSnapshotOrder ==
  (Descendants /\ Forest(activities)) =>
    /\ Returned
    /\ \A c1, c2 \in ChildrenOf(activities, arg1) :
         c1 < c2 =>
           \A u \in Subtree(activities, c1), v \in Subtree(activities, c2) :
             Pos(activities, u, result.value) < Pos(activities, v, result.value)

\* Two direct children were returned, the first with a child of its own
\* between them.
C6_Witness ==
  /\ Descendants /\ Forest(activities) /\ Returned
  /\ Len(result.value) = 3
  /\ Parent(result.value[1]) = arg1
  /\ Parent(result.value[2]) = result.value[1]["id"]
  /\ Parent(result.value[3]) = arg1

-----------------------------------------------------------------------------
(* C7 *)

Ancestors == op = "get_activity_ancestors"

\* C7: the ancestors are ordered nearest first: the first is the record the
\* activity's parent_id names, each later one the record the parent_id of
\* the one before names, and the last is the top of the chain (its parent_id
\* is null, absent or resolves to no record).
C7_NearestFirst ==
  (Ancestors /\ Returned /\ result.value /= <<>>) =>
    LET chain == result.value
        start == IndexOfId(activities, arg1)
    IN  /\ start /= 0
        /\ Elements(chain) \subseteq Elements(activities)
        /\ chain[1]["id"] = Parent(activities[start])
        /\ \A k \in 2..Len(chain) : chain[k]["id"] = Parent(chain[k - 1])
        /\ Parent(chain[Len(chain)]) \notin IdsOf(activities)

\* The ancestors of a grandchild were collected: its parent, then the root.
C7_Witness ==
  /\ Ancestors /\ Returned
  /\ Len(result.value) = 2
  /\ Parent(result.value[2]) = None
  /\ IndexOfId(activities, result.value[1]["id"])
       > IndexOfId(activities, result.value[2]["id"])

-----------------------------------------------------------------------------
(* C8 *)

Roots == op = "get_root_activities"

\* C8: get_root_activities returns exactly the records whose parent_id is
\* null, absent or falsy, in snapshot order; an orphan (parent_id set and
\* resolving to no record) is never returned.
C8_RootsExactInOrder ==
  Roots =>
    /\ Returned
    /\ \A i \in 1..Len(activities) :
         (activities[i] \in Elements(result.value))
           <=> Parent(activities[i]) \in {None, EmptyStr}
    /\ \A j, k \in 1..Len(result.value) :
         j < k => IndexOfId(activities, result.value[j]["id"])
                    < IndexOfId(activities, result.value[k]["id"])
    /\ \A i \in 1..Len(activities) :
         IsOrphan(activities, i) => activities[i] \notin Elements(result.value)

\* Roots were selected from a snapshot listed newest first that holds a
\* record with a null parent_id, one with an empty parent_id and an orphan.
C8_Witness ==
  /\ Roots /\ Returned
  /\ Len(result.value) = 2
  /\ result.value[1]["id"] > result.value[2]["id"]
  /\ \E j, k \in 1..2 : /\ "parent_activity_id" \in DOMAIN result.value[j]
                        /\ result.value[j]["parent_activity_id"] = EmptyStr
                        /\ Parent(result.value[k]) = None
  /\ \E i \in 1..Len(activities) : IsOrphan(activities, i)

-----------------------------------------------------------------------------
(* C9 *)

Depth == op = "calculate_activity_depth"

\* C9: for an orphan r, get_activity_ancestors(r.id) is empty and
\* calculate_activity_depth(r.id) is 0, although r is no root; and a walk
\* whose chain ends (at a parent_id that is null, absent or unresolved)
\* returns every ancestor resolved up to that point and nothing more.
C9_OrphanAsymmetry ==
  LET F == activities
      start == IndexOfId(F, arg1)
  IN  /\ (Ancestors /\ start /= 0 /\ IsOrphan(F, start)) =>
           /\ Returned /\ result.value = <<>>
           /\ F[start] \notin Elements(get_root_activities(F).value)
      /\ (Depth /\ start /= 0 /\ IsOrphan(F, start)) =>
           /\ Returned /\ result.value = 0
           /\ F[start] \notin Elements(get_root_activities(F).value)
      /\ (Ancestors /\ start /= 0 /\ Up(F, start, Len(F)) = 0) =>
           /\ Returned
           /\ \A k \in 1..Len(F) :
                IF Up(F, start, k) /= 0
                THEN k <= Len(result.value) /\ result.value[k] = F[Up(F, start, k)]
                ELSE Len(result.value) < k

\* The depth of an orphan has been computed.
C9_Witness ==
  /\ Depth /\ Returned
  /\ IndexOfId(activities, arg1) /= 0
  /\ IsOrphan(activities, IndexOfId(activities, arg1))
  /\ Parent(activities[IndexOfId(activities, arg1)]) = Missing
  /\ Len(activities) = MaxLen

-----------------------------------------------------------------------------
(* C10 *)

IsAncestor == op = "is_ancestor_of"

\* C10: a lookup miss is not an error.  When activity_id is the id of no
\* record, get_activity_ancestors returns the empty sequence,
\* calculate_activity_depth returns 0 and is_ancestor_of(a, activity_id)
\* returns false for every a.
C10_LookupMiss ==
  /\ (Ancestors /\ arg1 \notin IdsOf(activities)) =>
       (Returned /\ result.value = <<>>)
  /\ (Depth /\ arg1 \notin IdsOf(activities)) =>
       (Returned /\ result.value = 0)
  /\ (IsAncestor /\ arg2 \notin IdsOf(activities)) =>
       (Returned /\ result.value = FALSE)

\* is_ancestor_of was asked about a descendant id that no record carries,
\* with an ancestor id that a record does carry, in a non-empty snapshot.
C10_Witness ==
  /\ IsAncestor /\ Returned
  /\ arg2 = Missing
  /\ arg1 \in IdsOf(activities)
  /\ result.value = FALSE

-----------------------------------------------------------------------------
(* C11 *)

\* Record i lies on a parent cycle: following parent_id leads back to it.
OnCycle(F, i) == \E k \in 1..Len(F) : Up(F, i, k) = i

\* C11: is_ancestor_of is not reflexive.  is_ancestor_of(x, x) never returns
\* true, for any snapshot and any id x, also when x lies on a parent cycle
\* (there the walk never ends, so nothing is returned at all).
C11_NotReflexive ==
  (IsAncestor /\ arg1 = arg2) =>
    /\ ~(Returned /\ result.value = TRUE)
    /\ (arg1 \in IdsOf(activities) /\ OnCycle(activities, IndexOfId(activities, arg1)))
         => result.kind = "diverges"

\* is_ancestor_of(x, x) was asked for a record x whose parent_id is its own id.
C11_Witness ==
  /\ IsAncestor /\ arg1 = arg2
  /\ arg1 \in IdsOf(activities)
  /\ Parent(activities[IndexOfId(activities, arg1)]) = arg1
  /\ result.kind = "diverges"

-----------------------------------------------------------------------------
(* C12 *)

Tree == op = "get_activity_tree"

\* The nodes of a nested tree, at every level.
RECURSIVE NodesOf(_)
NodesOf(tree) ==
  IF tree = <<>> THEN {}
  ELSE LET node == Head(tree)
       IN  {node}
           \cup (IF "children" \in DOMAIN node THEN NodesOf(node["children"]) ELSE {})
           \cup NodesOf(Tail(tree))

\* C12: in every node of a tree, at every level, the children field is
\* present exactly when some record of the snapshot has the node's id as its
\* parent_id; a node without children has no children field, never an empty
\* list.
C12_ChildrenIffChild ==
  (Tree /\ Returned) =>
    \A node \in NodesOf(result.value) :
      /\ ("children" \in DOMAIN node) <=> HasChildren(activities, node["id"])
      /\ ("children" \in DOMAIN node) => node["children"] /= <<>>

\* A tree was built in which a node with a children field holds a node
\* without one, beside a top-level node without one.
C12_Witness ==
  /\ Tree /\ Returned
  /\ Len(result.value) = 2
  /\ \E j, k \in 1..2 :
       /\ "children" \in DOMAIN result.value[j]
       /\ "children" \notin DOMAIN result.value[j]["children"][1]
       /\ "children" \notin DOMAIN result.value[k]

-----------------------------------------------------------------------------
(* C13 *)

\* The records of the snapshot whose parent_id is p, in snapshot order.
RecordsUnder(F, p) == SelectSeq(F, LAMBDA r : Parent(r) = p)

StripAll(tree) == [k \in 1..Len(tree) |-> Strip(tree[k])]

\* C13: the top level of get_activity_tree(F, parent_id) holds exactly the
\* records whose parent_id equals parent_id (null or absent for None), and
\* every children list exactly the records whose parent_id is the id of the
\* node that carries it, each list in snapshot order.
C13_LevelsInSnapshotOrder ==
  (Tree /\ Returned) =>
    /\ StripAll(result.value) = RecordsUnder(activities, arg1)
    /\ \A node \in NodesOf(result.value) :
         "children" \in DOMAIN node =>
           StripAll(node["children"]) = RecordsUnder(activities, node["id"])

\* A tree was built from a snapshot listed newest first: two siblings under
\* the first top-level node, in snapshot order.
C13_Witness ==
  /\ Tree /\ Returned
  /\ Len(result.value) = 1
  /\ "children" \in DOMAIN result.value[1]
  /\ Len(result.value[1]["children"]) = 2
  /\ result.value[1]["children"][1]["id"] > result.value[1]["children"][2]["id"]

-----------------------------------------------------------------------------
(* C14 *)

\* The outcome of the query of this state, run again on the snapshot as it
\* is now.
SameQueryAgain ==
  CASE op = "get_activity_tree" ->
         LET outcome == get_activity_tree(activities, arg1, 0)
         IN  [kind |-> outcome.kind, value |-> outcome.value]
    [] op = "get_activity_descendants" -> get_activity_descendants(activities, arg1, 0)
    [] op = "get_activity_ancestors" -> get_activity_ancestors(activities, arg1)
    [] op = "get_root_activities" -> get_root_activities(activities)
    [] op = "calculate_activity_depth" -> calculate_activity_depth(activities, arg1)
    [] op = "is_ancestor_of" -> is_ancestor_of(activities, arg1, arg2)
    [] OTHER -> result

\* C14: no operation mutates its input.  Every step leaves the snapshot and
\* each of its records as they were (no record gains a children field), and
\* the query just answered, asked again of the snapshot it left behind,
\* gives the same outcome.
C14_NoMutation ==
  /\ [][/\ activities' = activities
        /\ \A i \in 1..Len(activities') : "children" \notin DOMAIN activities'[i]]_vars
  /\ [](result = SameQueryAgain)

\* A tree with a children field has been built and the snapshot's records
\* carry none.
C14_Witness ==
  /\ Tree /\ Returned
  /\ Len(activities) = MaxLen
  /\ \E node \in NodesOf(result.value) : "children" \in DOMAIN node
  /\ \A i \in 1..Len(activities) : "children" \notin DOMAIN activities[i]

-----------------------------------------------------------------------------
(* C15 *)

-----------------------------------------------------------------------------
(* C20 *)

\* C20: the depth and the ancestry test are derived from the ancestor chain.
\* Whenever get_activity_ancestors(d) returns, calculate_activity_depth(d) is
\* the length of what it returns, and is_ancestor_of(a, d) is true exactly
\* when a is the id of one of its elements.
C20_DerivedFromAncestors ==
  /\ Depth =>
       LET chain == get_activity_ancestors(activities, arg1)
       IN  chain.kind = "return" =>
             (Returned /\ result.value = Len(chain.value))
  /\ IsAncestor =>
       LET chain == get_activity_ancestors(activities, arg2)
       IN  chain.kind = "return" =>
             /\ Returned
             /\ result.value = (arg1 \in {chain.value[k]["id"] : k \in 1..Len(chain.value)})

\* is_ancestor_of answered true for the parent of a record that has a
\* grandparent too.
C20_Witness ==
  /\ IsAncestor /\ Returned /\ result.value = TRUE
  /\ LET chain == get_activity_ancestors(activities, arg2).value
     IN  Len(chain) = 2 /\ chain[1]["id"] = arg1


-----------------------------------------------------------------------------
(* C17 *)

\* C17 as stated: on a snapshot with a parent cycle the null-rooted tree
\* either recurses forever (the call yields no value) or its pre-order
\* flattening holds some record more than once.
C17_ForeverOrDuplicated ==
  (NullRootedTree /\ UniqueIds(activities) /\ ~Acyclic(activities)) =>
    \/ ~Returned
    \/ \E i \in 1..Len(activities) :
         Count(activities[i], Flatten(result.value)) > 1

\* C17 amended: on a snapshot with a parent cycle the null-rooted tree
\* returns, its pre-order flattening has no record twice, and it silently
\* omits every record on a cycle and every record whose chain leads into
\* one: a record appears once when its parent chain ends at a root and not
\* at all otherwise.
C17_CycleSilentlyOmitted ==
  (NullRootedTree /\ UniqueIds(activities) /\ ~Acyclic(activities)) =>
    /\ Returned
    /\ NoDuplicates(Flatten(result.value))
    /\ \A i \in 1..Len(activities) :
         /\ OnCycle(activities, i) =>
              Count(activities[i], Flatten(result.value)) = 0
         /\ Count(activities[i], Flatten(result.value)) =
              (IF ChainEndsAtRoot(activities, i) THEN 1 ELSE 0)

\* The null-rooted tree of a snapshot with a root and a two-record cycle has
\* been built: the root is in it, the cycle's records are not.
C17_Witness ==
  /\ NullRootedTree /\ Returned
  /\ \E i, j, k \in 1..Len(activities) :
       /\ Parent(activities[i]) = None
       /\ j /= k
       /\ Parent(activities[j]) = activities[k]["id"]
       /\ Parent(activities[k]) = activities[j]["id"]
       /\ Count(activities[i], Flatten(result.value)) = 1
       /\ Count(activities[j], Flatten(result.value)) = 0
       /\ Count(activities[k], Flatten(result.value)) = 0

-----------------------------------------------------------------------------
(* The same operations one interpreter step at a time: the call stack of   *)
(* the recursive functions and the loop of the ancestor walk are explicit, *)
(* so that a call that does not end is a behaviour and not an outcome.     *)
(* A frame holds the function, the id it filters on (parent_id or          *)
(* activity_id), the position i of its for loop in the snapshot and the    *)
(* list it has built so far.                                               *)

\* The longest ancestor list the model follows: past it the walk is on a
\* cycle and the list only grows.
MaxWalk == 5

Running == result.kind = "running"

Pending == [kind |-> "running", value |-> <<>>]

Frame(fn, id) == [fn |-> fn, id |-> id, i |-> 1, acc |-> <<>>]

Top == stack[Len(stack)]

Caller == stack[Len(stack) - 1]

SetTop(frame) == [stack EXCEPT ![Len(stack)] = frame]

\* The test of the for loop of the running frame on the record it is at.
Selects(frame, activity) ==
  IF frame.fn = "tree" THEN TreeSelects(activity, frame.id)
  ELSE IsChildOf(activity, frame.id)

\* What the caller builds from the list a recursive call has returned.
Resume(frame, F, returned) ==
  IF frame.fn = "tree"
  THEN [frame EXCEPT !.i = @ + 1,
                     !.acc = AppendNode(@, WithChildren(F[frame.i], returned))]
  ELSE [frame EXCEPT !.i = @ + 1,
                     !.acc = AppendExtend(@, F[frame.i], returned)]

\* What the operation returns once get_activity_ancestors has returned.
Deliver(name, ancestors, ancestor_id) ==
  CASE name = "calculate_activity_depth" -> Len(ancestors)
    [] name = "is_ancestor_of" ->
         \E k \in 1..Len(ancestors) : ancestors[k]["id"] = ancestor_id
    [] OTHER -> ancestors

BeginTree(parent_id) ==
  /\ op = "none"
  /\ op' = "get_activity_tree"
  /\ arg1' = parent_id
  /\ arg2' = None
  /\ result' = Pending
  /\ stack' = <<Frame("tree", parent_id)>>
  /\ UNCHANGED <<activities, other>>

BeginDescendants(activity_id) ==
  /\ op = "none"
  /\ op' = "get_activity_descendants"
  /\ arg1' = activity_id
  /\ arg2' = None
  /\ result' = Pending
  /\ stack' = <<Frame("descendants", activity_id)>>
  /\ UNCHANGED <<activities, other>>

\* The lookup of the activity and the start of the walk at its parent_id.
BeginWalk(name, ancestor_id, activity_id) ==
  /\ op = "none"
  /\ op' = name
  /\ arg1' = IF name = "is_ancestor_of" THEN ancestor_id ELSE activity_id
  /\ arg2' = IF name = "is_ancestor_of" THEN activity_id ELSE None
  /\ LET activity == Find(activities, activity_id)
     IN  IF activity = 0
         THEN /\ result' = Return(Deliver(name, <<>>, ancestor_id))
              /\ stack' = <<>>
         ELSE /\ result' = Pending
              /\ stack' = <<Frame("ancestors",
                                  Get(activities[activity], "parent_activity_id"))>>
  /\ UNCHANGED <<activities, other>>

BeginAncestors(activity_id) ==
  BeginWalk("get_activity_ancestors", None, activity_id)

BeginDepth(activity_id) ==
  BeginWalk("calculate_activity_depth", None, activity_id)

BeginIsAncestor(ancestor_id, descendant_id) ==
  BeginWalk("is_ancestor_of", ancestor_id, descendant_id)

\* The list comprehension of get_root_activities, in one step.
RunRoots ==
  /\ op = "none"
  /\ op' = "get_root_activities"
  /\ arg1' = None
  /\ arg2' = None
  /\ result' = get_root_activities(activities)
  /\ UNCHANGED <<activities, stack, other>>

InLoop ==
  /\ Running
  /\ stack /= <<>>
  /\ Top.fn \in {"tree", "descendants"}

\* The record the for loop is at fails the test: on to the next record.
StepSkip ==
  /\ InLoop
  /\ Top.i <= Len(activities)
  /\ ~Selects(Top, activities[Top.i])
  /\ stack' = SetTop([Top EXCEPT !.i = @ + 1])
  /\ UNCHANGED <<activities, op, arg1, arg2, result, other>>

\* The record passes the test: the function calls itself on the record's id.
\* A stack deeper than the limit ends the whole call with RecursionError.
StepCall ==
  /\ InLoop
  /\ Top.i <= Len(activities)
  /\ Selects(Top, activities[Top.i])
  /\ IF Len(stack) > RecursionLimit(activities)
     THEN /\ result' = RecursionError
          /\ stack' = <<>>
     ELSE /\ stack' = Append(stack, Frame(Top.fn, activities[Top.i]["id"]))
          /\ UNCHANGED result
  /\ UNCHANGED <<activities, op, arg1, arg2, other>>

\* The for loop is over: the frame returns its list, to the caller's loop or,
\* from the outermost frame, as the outcome of the operation.
StepReturn ==
  /\ InLoop
  /\ Top.i > Len(activities)
  /\ IF Len(stack) = 1
     THEN /\ result' = Return(Top.acc)
          /\ stack' = <<>>
          /\ UNCHANGED activities
     ELSE /\ stack' = Append(SubSeq(stack, 1, Len(stack) - 2),
                             Resume(Caller, activities, Top.acc))
          /\ activities' =
               IF Top.fn = "tree"
               THEN SetChildren(activities, CopyTarget(Caller.i), Top.acc)
               ELSE activities
          /\ UNCHANGED result
  /\ UNCHANGED <<op, arg1, arg2, other>>

InWalk ==
  /\ Running
  /\ stack /= <<>>
  /\ Top.fn = "ancestors"

\* One round of the while loop that finds the parent.
StepWalk ==
  /\ InWalk
  /\ WalkContinues(Top.id)
  /\ Find(activities, Top.id) /= 0
  /\ Len(Top.acc) < MaxWalk
  /\ LET parent == activities[Find(activities, Top.id)]
     IN  stack' = SetTop([Top EXCEPT !.id = NextParent(parent),
                                     !.acc = AppendAncestor(@, parent)])
  /\ UNCHANGED <<activities, op, arg1, arg2, result, other>>

\* The while loop ends, on a falsy parent_id or on a parent that is not in
\* the snapshot, and the operation returns.
StepWalkEnd ==
  /\ InWalk
  /\ ~WalkContinues(Top.id) \/ Find(activities, Top.id) = 0
  /\ result' = Return(Deliver(op, Top.acc, arg1))
  /\ stack' = <<>>
  /\ UNCHANGED <<activities, op, arg1, arg2, other>>

Step == StepSkip \/ StepCall \/ StepReturn \/ StepWalk \/ StepWalkEnd

NextSteps ==
  \/ \E x \in Refs : BeginTree(x)
  \/ \E x \in Refs : BeginDescendants(x)
  \/ \E x \in Refs : BeginAncestors(x)
  \/ RunRoots
  \/ \E x \in Refs : BeginDepth(x)
  \/ \E a, d \in Refs : BeginIsAncestor(a, d)
  \/ StepSkip
  \/ StepCall
  \/ StepReturn
  \/ StepWalk
  \/ StepWalkEnd
  \/ Discard

\* The interpreter runs a call that has begun: no step that can be taken is
\* put off forever.
SpecSteps == Init /\ [][NextSteps]_vars /\ WF_vars(Step)

\* Every outcome of the stepwise run is the outcome of the operation.
StepsAgree ==
  (op /= "none" /\ ~Running) =>
    /\ stack = <<>>
    /\ result.kind /= "return" \/ result = SameQueryAgain

-----------------------------------------------------------------------------
(* C16 *)

Finished == op /= "none" /\ Returned /\ stack = <<>>

-----------------------------------------------------------------------------
(* C18 *)

Recursive == op \in {"get_activity_tree", "get_activity_descendants"}

\* The id the operation starts at is the id of a record on a parent cycle.
StartOnCycle ==
  /\ UniqueIds(activities)
  /\ arg1 \in IdsOf(activities)
  /\ OnCycle(activities, IndexOfId(activities, arg1))

\* C18 as stated: when the start id of get_activity_tree or of
\* get_activity_descendants is the id of a record on a parent cycle, the call
\* never terminates: in every state it is still running.
C18_NeverTerminates == (Recursive /\ StartOnCycle) => Running

\* C18 amended: when the start id is the id of a record on a parent cycle,
\* the call never returns a value, and it does not run forever either: the
\* recursion goes round the cycle until the stack is deeper than the limit,
\* and the call ends with RecursionError.
C18_EndsWithRecursionError ==
  /\ []((Recursive /\ StartOnCycle) => ~Returned)
  /\ (Recursive /\ StartOnCycle) ~> (result.kind = "RecursionError" /\ stack = <<>>)

\* A recursive call that started on a cycle has gone round it: the stack
\* holds more frames than the snapshot has records.
C18_Witness ==
  /\ Recursive /\ StartOnCycle /\ Running
  /\ Len(stack) > Len(activities)
  /\ Len(activities) >= 2

-----------------------------------------------------------------------------
(* C19 *)

Walk ==
  op \in {"get_activity_ancestors", "calculate_activity_depth", "is_ancestor_of"}

\* The activity whose parent chain the operation walks.
WalkStart == IF op = "is_ancestor_of" THEN arg2 ELSE arg1

\* The record with this id, or one of its ancestors, lies on a parent cycle.
ChainReachesCycle(F, id) ==
  /\ id \in IdsOf(F)
  /\ \E k \in 0..Len(F) :
       /\ Up(F, IndexOfId(F, id), k) /= 0
       /\ OnCycle(F, Up(F, IndexOfId(F, id), k))

\* C19: get_activity_ancestors, and with it calculate_activity_depth and
\* is_ancestor_of, has no cycle guard.  When the parent chain of the activity
\* reaches a record on a cycle the operation never ends and the ancestor list
\* keeps growing, past any number of records the snapshot has; when the chain
\* reaches no cycle the operation returns, also on a snapshot that has a cycle
\* elsewhere.
C19_WalkLoopsOnCycleOnly ==
  /\ []((Walk /\ UniqueIds(activities) /\ ChainReachesCycle(activities, WalkStart))
          => Running)
  /\ (Walk /\ UniqueIds(activities) /\ ChainReachesCycle(activities, WalkStart))
       ~> (InWalk /\ Len(Top.acc) = MaxWalk)
  /\ (Walk /\ UniqueIds(activities) /\ ~ChainReachesCycle(activities, WalkStart))
       ~> Finished

\* A walk whose chain leads into a cycle from outside has gone round it: the
\* list holds more ancestors than the snapshot has records.
C19_Witness ==
  /\ Walk /\ InWalk
  /\ ChainReachesCycle(activities, WalkStart)
  /\ ~OnCycle(activities, IndexOfId(activities, WalkStart))
  /\ Len(Top.acc) = MaxWalk
  /\ MaxWalk > Len(activities)

\* A walk on a snapshot with a cycle elsewhere has returned its ancestors.
C19_CycleElsewhere ==
  /\ Walk /\ Finished
  /\ ~Acyclic(activities)
  /\ ~ChainReachesCycle(activities, WalkStart)
  /\ op = "get_activity_ancestors" /\ result.value /= <<>>

-----------------------------------------------------------------------------
(* C21 *)

\* C21: on a snapshot with unique ids and no parent cycle the depth follows
\* the level recurrence: calculate_activity_depth is 0 for every record that
\* get_root_activities returns, and for every record whose parent_id is the
\* id of a record it is one more than the depth of that record.
C21_LevelRecurrence ==
  (Depth /\ Forest(activities) /\ arg1 \in IdsOf(activities)) =>
    LET F == activities
        r == F[IndexOfId(F, arg1)]
    IN  /\ Returned
        /\ (\E k \in 1..Len(get_root_activities(F).value) :
               get_root_activities(F).value[k] = r)
             => result.value = 0
        /\ Parent(r) \in IdsOf(F) =>
             /\ calculate_activity_depth(F, Parent(r)).kind = "return"
             /\ result.value = calculate_activity_depth(F, Parent(r)).value + 1

\* The depth of a grandchild of a root has been computed: it is 2, its
\* parent's is 1 and the root's is 0.
C21_Witness ==
  /\ Depth /\ Forest(activities) /\ Returned
  /\ arg1 \in IdsOf(activities)
  /\ result.value = 2
  /\ LET r == activities[IndexOfId(activities, arg1)]
     IN  /\ Parent(r) \in IdsOf(activities)
         /\ calculate_activity_depth(activities, Parent(r)).value = 1

-----------------------------------------------------------------------------
(* C22 *)

\* C22: on a snapshot with unique ids and no parent cycle is_ancestor_of is
\* asymmetric: for all ids a and d (ids of records, of no record, empty or
\* null), is_ancestor_of(a, d) and is_ancestor_of(d, a) are never both true.
C22_Asymmetric ==
  (IsAncestor /\ Forest(activities)) =>
    /\ Returned
    /\ is_ancestor_of(activities, arg2, arg1).kind = "return"
    /\ ~(result.value /\ is_ancestor_of(activities, arg2, arg1).value)

\* Scenario A: on a chain of three records is_ancestor_of(top, bottom) has
\* returned true, and the converse query is false.
C22_Witness ==
  /\ IsAncestor /\ Forest(activities) /\ Returned
  /\ Len(activities) = 3
  /\ result.value = TRUE
  /\ arg1 \in IdsOf(activities) /\ arg2 \in IdsOf(activities)
  /\ Parent(activities[IndexOfId(activities, arg2)]) \notin {arg1, None}
  /\ is_ancestor_of(activities, arg2, arg1).value = FALSE

-----------------------------------------------------------------------------
(* C24 *)

\* C24: every node of a tree, at every level, is a copy of one record of the
\* snapshot: without its children field it is that record, field for field.
\* The children field is the only one added, and its value is the tree of
\* the node's id (the field is absent when that tree is empty).
C24_NodesAreCopies ==
  (Tree /\ Returned) =>
    \A node \in NodesOf(result.value) :
      /\ \E i \in 1..Len(activities) :
           /\ Strip(node) = activities[i]
           /\ "children" \notin DOMAIN activities[i]
      /\ LET below == get_activity_tree(activities, node["id"], 0)
         IN  /\ below.kind = "return"
             /\ below.value =
                  (IF "children" \in DOMAIN node THEN node["children"] ELSE <<>>)

\* A tree has been built with a node that has both a parent_id and children
\* of its own.
C24_Witness ==
  /\ Tree /\ Returned
  /\ \E node \in NodesOf(result.value) :
       /\ "parent_activity_id" \in DOMAIN node
       /\ Truthy(node["parent_activity_id"])
       /\ "children" \in DOMAIN node
       /\ node["children"] /= <<>>

-----------------------------------------------------------------------------
(* C25 *)

\* C25: the null-rooted tree never reaches a cycle.  On every snapshot with
\* unique ids, with or without parent cycles, get_activity_tree(F, None)
\* returns, and its pre-order flattening holds exactly the records whose
\* parent chain ends at a record with a null or absent parent_id, each once;
\* a record on a cycle or below one is not in it.
C25_NullRootedSkipsCycles ==
  (NullRootedTree /\ UniqueIds(activities)) =>
    /\ Returned
    /\ \A k \in 1..Len(Flatten(result.value)) :
         \E i \in 1..Len(activities) :
           /\ Flatten(result.value)[k] = activities[i]
           /\ ChainEndsAtRoot(activities, i)
    /\ \A i \in 1..Len(activities) :
         /\ ChainEndsAtRoot(activities, i) =>
              Count(activities[i], Flatten(result.value)) = 1
         /\ ChainReachesCycle(activities, activities[i]["id"]) =>
              Count(activities[i], Flatten(result.value)) = 0

\* The null-rooted tree of a snapshot with a root, a record that is its own
\* parent and a record below that one has been built: it holds the root only.
C25_Witness ==
  /\ NullRootedTree /\ Returned
  /\ Len(Flatten(result.value)) = 1
  /\ \E i, j, k \in 1..Len(activities) :
       /\ Parent(activities[i]) = None
       /\ Parent(activities[j]) = activities[j]["id"]
       /\ k /= j
       /\ Parent(activities[k]) = activities[j]["id"]
       /\ Flatten(result.value)[1] = activities[i]

-----------------------------------------------------------------------------
(* C26 *)

IdsIn(seq) == [k \in 1..Len(seq) |-> seq[k]["id"]]

\* C26 as stated: on every snapshot, whose parent ids may be null, absent,
\* the empty string or a non-empty id, the ids at the top level of the
\* null-rooted tree are the ids get_root_activities returns, in that order.
C26_TopLevelIsRoots ==
  (NullRootedTree /\ Returned) =>
    IdsIn(result.value) = IdsIn(get_root_activities(activities).value)

\* What the code does: the top level of the null-rooted tree holds the roots
\* whose parent_id is null or absent, and not the roots whose parent_id is the
\* empty string.
C26_TopLevelIsNullRoots ==
  (NullRootedTree /\ Returned) =>
    IdsIn(result.value) =
      IdsIn(SelectSeq(get_root_activities(activities).value,
                      LAMBDA r : Parent(r) = None))

\* The null-rooted tree of a snapshot with a root whose parent_id is null or
\* absent and a record whose parent_id is the empty string has been built:
\* get_root_activities returns both, the top level of the tree holds one.
C26_Witness ==
  /\ NullRootedTree /\ Returned
  /\ Len(result.value) = 1
  /\ Len(get_root_activities(activities).value) = 2
  /\ \E i \in 1..Len(activities) :
       "parent_activity_id" \in DOMAIN activities[i]
         /\ activities[i]["parent_activity_id"] = EmptyStr

-----------------------------------------------------------------------------
(* C27 *)

\* C27: get_activity_descendants is the flattening of get_activity_tree.  On
\* a snapshot with unique ids and no parent cycle, for every start id (the id
\* of a record, an id of no record, the empty string or null), the ids of the
\* records get_activity_descendants returns are, in order, the ids met in a
\* pre-order walk of the tree built from the same start id.
C27_DescendantsFlattenTree ==
  /\ (Descendants /\ Forest(activities)) =>
       LET tree == get_activity_tree(activities, arg1, 0)
       IN  /\ Returned
           /\ tree.kind = "return"
           /\ IdsIn(result.value) = IdsIn(Flatten(tree.value))
  /\ (Tree /\ Forest(activities)) =>
       LET below == get_activity_descendants(activities, arg1, 0)
       IN  /\ Returned
           /\ below.kind = "return"
           /\ IdsIn(Flatten(result.value)) = IdsIn(below.value)

\* The descendants of a record with two children, one of them with a child
\* of its own, have been collected: three ids, as in the walk of the tree.
C27_Witness ==
  /\ Descendants /\ Forest(activities) /\ Returned
  /\ arg1 \in IdsOf(activities) \cup {None}
  /\ Len(result.value) = 3
  /\ Len(get_activity_tree(activities, arg1, 0).value) = 2

-----------------------------------------------------------------------------
(* C28 *)

\* C28: ancestor and descendant queries are dual.  On a snapshot with unique
\* ids and no parent cycle, for all ids a and d of records of the snapshot,
\* is_ancestor_of(a, d) is true exactly when the record with id d is among
\* get_activity_descendants(a); equivalently, the record with id a is among
\* get_activity_ancestors(d) exactly when d's record is among the
\* descendants of a.
C28_AncestorDescendantDual ==
  LET F == activities
      Rec(id) == F[IndexOfId(F, id)]
  IN  /\ (IsAncestor /\ Forest(F) /\ arg1 \in IdsOf(F) /\ arg2 \in IdsOf(F)) =>
           /\ Returned
           /\ result.value =
                (Rec(arg2) \in Elements(get_activity_descendants(F, arg1, 0).value))
      /\ (Descendants /\ Forest(F) /\ arg1 \in IdsOf(F)) =>
           /\ Returned
           /\ \A d \in IdsOf(F) :
                (Rec(d) \in Elements(result.value))
                  <=> (Rec(arg1) \in Elements(get_activity_ancestors(F, d).value))
      /\ (Ancestors /\ Forest(F) /\ arg1 \in IdsOf(F)) =>
           /\ Returned
           /\ \A a \in IdsOf(F) :
                (Rec(a) \in Elements(result.value))
                  <=> (Rec(arg1) \in Elements(get_activity_descendants(F, a, 0).value))

\* is_ancestor_of has returned true for a record and its grandchild, which is
\* among the record's descendants.
C28_Witness ==
  /\ IsAncestor /\ Forest(activities) /\ Returned
  /\ arg1 \in IdsOf(activities) /\ arg2 \in IdsOf(activities)
  /\ result.value = TRUE
  /\ Parent(activities[IndexOfId(activities, arg2)]) /= arg1
  /\ activities[IndexOfId(activities, arg2)]
       \in Elements(get_activity_descendants(activities, arg1, 0).value)

-----------------------------------------------------------------------------
(* C29 *)

\* The nodes of a nested tree, each without its children and with the number
\* of children lists that enclose it (level for the nodes of the list given).
RECURSIVE Levels(_, _)
Levels(tree, level) ==
  IF tree = <<>> THEN {}
  ELSE LET node == Head(tree)
       IN  {<<Strip(node), level>>}
           \cup (IF "children" \in DOMAIN node
                 THEN Levels(node["children"], level + 1) ELSE {})
           \cup Levels(Tail(tree), level)

\* C29: the nesting level is the depth.  On a snapshot with unique ids and
\* no parent cycle, for every record in the null-rooted tree, the number of
\* children lists that enclose its node (0 at the top level) is
\* calculate_activity_depth of its id.
C29_LevelIsDepth ==
  (NullRootedTree /\ Forest(activities) /\ Returned) =>
    \A at \in Levels(result.value, 0) :
      /\ calculate_activity_depth(activities, at[1]["id"]).kind = "return"
      /\ calculate_activity_depth(activities, at[1]["id"]).value = at[2]

\* A null-rooted tree with a node two children lists deep has been built.
C29_Witness ==
  /\ NullRootedTree /\ Forest(activities) /\ Returned
  /\ \E at \in Levels(result.value, 0) :
       /\ at[2] = 2
       /\ calculate_activity_depth(activities, at[1]["id"]).value = 2

-----------------------------------------------------------------------------
(* C30 *)

Self(F, id) == F[IndexOfId(F, id)]

\* C30 as stated: on a snapshot with unique ids and no parent cycle, for every
\* id x, get_activity_ancestors(x) holds no record twice and never the record
\* with id x, so that 0 <= calculate_activity_depth(x) <= |F| - 1.
C30_ChainWithinSnapshot ==
  /\ (Ancestors /\ Forest(activities)) =>
       /\ Returned
       /\ NoDuplicates(result.value)
       /\ arg1 \in IdsOf(activities) =>
            Self(activities, arg1) \notin Elements(result.value)
  /\ (Depth /\ Forest(activities)) =>
       /\ Returned
       /\ 0 <= result.value
       /\ result.value <= Len(activities) - 1

\* C30 amended: on a snapshot with unique ids and no parent cycle, for every
\* id x, get_activity_ancestors(x) holds no record twice and never the record
\* with id x; calculate_activity_depth(x) is at least 0, at most |F| - 1 when
\* x is the id of a record, and 0 when it is the id of no record (so on the
\* empty snapshot, where |F| - 1 is negative, it is 0).
C30_ChainNeverRepeats ==
  /\ (Ancestors /\ Forest(activities)) =>
       /\ Returned
       /\ NoDuplicates(result.value)
       /\ arg1 \in IdsOf(activities) =>
            Self(activities, arg1) \notin Elements(result.value)
  /\ (Depth /\ Forest(activities)) =>
       /\ Returned
       /\ 0 <= result.value
       /\ arg1 \in IdsOf(activities) => result.value <= Len(activities) - 1
       /\ arg1 \notin IdsOf(activities) => result.value = 0

\* The depth of the last record of a chain of all the records has been
\* computed: it is |F| - 1, the bound itself.
C30_Witness ==
  /\ Depth /\ Forest(activities) /\ Returned
  /\ Len(activities) = MaxLen
  /\ arg1 \in IdsOf(activities)
  /\ result.value = Len(activities) - 1

-----------------------------------------------------------------------------
(* Two callers on one snapshot.  The engine keeps no state of its own: all  *)
(* a call has is its arguments and the locals of its frames, and the only   *)
(* object two calls share is the snapshot.  The caller that is scheduled    *)
(* has its call in op, arg1, arg2, result and stack; the call of the caller *)
(* that is waiting is in other.  Switch hands the processor over between    *)
(* any two steps.                                                           *)

\* The call of the scheduled caller.
Me == [op |-> op, arg1 |-> arg1, arg2 |-> arg2, result |-> result, stack |-> stack]

Switch ==
  /\ op' = other.op
  /\ arg1' = other.arg1
  /\ arg2' = other.arg2
  /\ result' = other.result
  /\ stack' = other.stack
  /\ other' = Me
  /\ UNCHANGED activities

\* The snapshots two callers share: those with fewer than MaxLen records.
InitShared == Init /\ Len(activities) < MaxLen

NextShared ==
  \/ \E x \in Refs : BeginTree(x)
  \/ \E x \in Refs : BeginDescendants(x)
  \/ \E x \in Refs : BeginAncestors(x)
  \/ RunRoots
  \/ \E x \in Refs : BeginDepth(x)
  \/ \E a, d \in Refs : BeginIsAncestor(a, d)
  \/ StepSkip
  \/ StepCall
  \/ StepReturn
  \/ StepWalk
  \/ StepWalkEnd
  \/ Discard
  \/ Switch

SpecShared == InitShared /\ [][NextShared]_vars

-----------------------------------------------------------------------------
(* C23 *)

\* The outcome of a call when it runs alone on snapshot F.
Alone(call, F) ==
  CASE call.op = "get_activity_tree" ->
         LET outcome == get_activity_tree(F, call.arg1, 0)
         IN  [kind |-> outcome.kind, value |-> outcome.value]
    [] call.op = "get_activity_descendants" ->
         get_activity_descendants(F, call.arg1, 0)
    [] call.op = "get_activity_ancestors" -> get_activity_ancestors(F, call.arg1)
    [] call.op = "get_root_activities" -> get_root_activities(F)
    [] call.op = "calculate_activity_depth" -> calculate_activity_depth(F, call.arg1)
    [] call.op = "is_ancestor_of" -> is_ancestor_of(F, call.arg1, call.arg2)

Ended(call) == call.op /= "none" /\ call.result.kind /= "running"

\* C23: concurrent calls are safe.  When the calls of two callers run
\* interleaved, step by step, on the same snapshot, and nothing else writes
\* to it, then no step of a call changes the snapshot, no step of a call
\* changes anything of the other caller's call, and every call that ends,
\* ends with the outcome it has when it runs alone.
C23_ConcurrentCallsSafe ==
  /\ [][activities' = activities]_vars
  /\ [][Switch \/ other' = other]_vars
  /\ [](Ended(Me) => result = Alone(Me, activities))
  /\ [](Ended(other) => other.result = Alone(other, activities))

\* A tree has been built and returned while the descendants call of the
\* other caller, begun before, is two frames deep in the same snapshot.
C23_Witness ==
  /\ op = "get_activity_tree" /\ Returned /\ result.value /= <<>>
  /\ \E k \in 1..Len(result.value) : "children" \in DOMAIN result.value[k]
  /\ other.op = "get_activity_descendants"
  /\ other.result.kind = "running"
  /\ Len(other.stack) = 2
  /\ other.stack[1].acc = <<>>
=============================================================================
